---- MODULE Spec2Model ----
(***************************************************************************)
(* A model of the generalized-filtering training core:                     *)
(*   - FullyConnectedLatentVariable (lib/modules/latent_variables),        *)
(*   - SVG (lib/models/svg.py),                                            *)
(*   - train() and validate() (util/train_val.py).                         *)
(* Tensors are abstracted to integers (batch size 1, one feature); a       *)
(* tensor with a sequence-sample dimension [B,S,D] is a sequence of S      *)
(* integers.  Pixel intensities are counted in tenths, so that the 0.5     *)
(* the model subtracts from an observation is the integer 5.  The          *)
(* posterior's mean and log_var are exact fractions.                       *)
(* An Optional value is a sequence of length 0 (None) or 1.                *)
(***************************************************************************)
EXTENDS Integers, Sequences, FiniteSets, Bags, TLC

VARIABLES
  driver,   \* which caller drives the objects: "train", "validate", "svg"
            \* or "latent"
  pc,       \* position of the caller (the statement about to run)
  exc,      \* the exception that ended the last call, or "none"
  m,        \* the SVG model object
  lv,       \* a FullyConnectedLatentVariable used on its own
  inf_opt,  \* the inference optimizer and the .grad of its parameters
  gen_opt,  \* the generative optimizer and the .grad of its parameters
  loop,     \* the locals of train() or validate(), and the batch's graph
  trace,    \* the calls train() made on the current frame, in order
  calls     \* the calls made so far: their number, and of the latest one
            \* its name, argument, result and the state it found

vars == <<driver, pc, exc, m, lv, inf_opt, gen_opt, loop, trace, calls>>

-----------------------------------------------------------------------------
(* Bounds of the model *)
MaxBatches == 2
MaxSeqLen == 3
MaxInfIter == 2
MaxCalls == 4
MaxSamples == 2

(* Inputs *)
FrameVals == {0, 10}
LatentInputs == {-1, 2}
\* encodings given to infer: with them each gate takes the values 0, 1/2, 1
InferInputs == {-1, 0, 1, 2}
Procedures == {"direct", "iterative"}
ModelTypes == {"sm_mnist", "KTH_Actions", "bair_robot_pushing", "mnist"}

-----------------------------------------------------------------------------
(* Optional values *)
None == <<>>
Some(v) == <<v>>
IsNone(o) == o = <<>>
Get(o) == o[1]

RECURSIVE SeqSum(_)
SeqSum(s) == IF s = <<>> THEN 0 ELSE Head(s) + SeqSum(Tail(s))

Range(s) == {s[i] : i \in DOMAIN s}

(***************************************************************************)
(* Values of floating-point tensors that arithmetic takes off the          *)
(* integers are held exactly, as fractions <<numerator, denominator>> in   *)
(* lowest terms with a positive denominator.                               *)
(***************************************************************************)
Abs(n) == IF n < 0 THEN -n ELSE n

RECURSIVE GCD(_, _)
GCD(a, b) == IF b = 0 THEN a ELSE GCD(b, a % b)

Rat(n, d) == LET g == GCD(Abs(n), d) IN <<n \div g, d \div g>>

(* tensor.mean(dim=1) of a [B,S,D] tensor *)
MeanDim1(t) == Rat(SeqSum(t), Len(t))

-----------------------------------------------------------------------------
(***************************************************************************)
(* Collaborators of the latent variable: Normal and FullyConnectedLayer.   *)
(* A layer is an affine map of its input; theta is the value of its        *)
(* parameters, counted as the number of optimizer updates applied to them. *)
(***************************************************************************)
Normal_re_init(mean, log_var, zeros) ==
  [mean    |-> IF IsNone(mean) THEN zeros ELSE Get(mean),
   log_var |-> IF IsNone(log_var) THEN zeros ELSE Get(log_var)]

approx_post_mean_layer(theta, x) == x + 1 + theta
approx_post_log_var_layer(theta, x) == 2 * x - 1 + theta
\* sigmoid outputs, in halves: 0, 1/2 or 1
approx_post_mean_gate_layer(theta, x) == (x + theta) % 3
approx_post_log_var_gate_layer(theta, x) == (x + theta + 1) % 3
prior_mean_layer(theta, x) == 2 * x + 2 * theta + 2
prior_log_var_layer(theta, x) == 2 * theta - 2 * x

LayerParameters(layer) == << <<layer, "weight">>, <<layer, "bias">> >>

-----------------------------------------------------------------------------
(* FullyConnectedLatentVariable *)

\* the .grad of the posterior's mean and log_var: present or None
NoGrad == [mean |-> FALSE, log_var |-> FALSE]

LV_construct(latent_config, theta_inf, theta_gen) ==
  [inference_procedure |-> latent_config.inference_procedure,
   layers |-> {"approx_post_mean", "approx_post_log_var",
               "prior_mean", "prior_log_var"}
              \cup (IF latent_config.inference_procedure # "direct"
                    THEN {"approx_post_mean_gate", "approx_post_log_var_gate"}
                    ELSE {}),
   approx_post |-> Normal_re_init(None, None, Rat(0, 1)),
   prior       |-> Normal_re_init(None, None, <<0>>),
   grad        |-> NoGrad,
   theta_inf   |-> theta_inf,
   theta_gen   |-> theta_gen]

\* mutant: the gate weighs the candidate and its complement the old value
Blend_Swapped(gate, old, candidate) ==
  Rat((2 - gate) * old[1] * candidate[2] + gate * candidate[1] * old[2],
      2 * old[2] * candidate[2])

\* gate * old + (1 - gate) * candidate, the gate in halves, old and
\* candidate fractions: the exact value
Blend(gate, old, candidate) ==
  Rat(gate * old[1] * candidate[2] + (2 - gate) * candidate[1] * old[2],
      2 * old[2] * candidate[2])

\* the tensors infer assigns to the posterior are new ones, their .grad None

\* mutant: the gated update is applied under every inference procedure
LV_infer_AlwaysGated(v, input) ==
  [v EXCEPT !.approx_post =
     [mean |-> Blend(approx_post_mean_gate_layer(v.theta_inf, input),
                     v.approx_post.mean,
                     Rat(approx_post_mean_layer(v.theta_inf, input), 1)),
      log_var |-> Blend(approx_post_log_var_gate_layer(v.theta_inf, input),
                        v.approx_post.log_var,
                        Rat(approx_post_log_var_layer(v.theta_inf, input), 1))],
            !.grad = NoGrad]

LV_infer(v, input) ==
  LET approx_post_mean == Rat(approx_post_mean_layer(v.theta_inf, input), 1)
      approx_post_log_var ==
        Rat(approx_post_log_var_layer(v.theta_inf, input), 1)
  IN IF v.inference_procedure = "direct"
     THEN [v EXCEPT !.approx_post = [mean |-> approx_post_mean,
                                     log_var |-> approx_post_log_var],
                    !.grad = NoGrad]
     ELSE LET approx_post_mean_gate ==
                approx_post_mean_gate_layer(v.theta_inf, input)
              approx_post_log_var_gate ==
                approx_post_log_var_gate_layer(v.theta_inf, input)
          IN [v EXCEPT !.approx_post =
                [mean |-> Blend(approx_post_mean_gate, v.approx_post.mean,
                                approx_post_mean),
                 log_var |-> Blend(approx_post_log_var_gate,
                                   v.approx_post.log_var,
                                   approx_post_log_var)],
                      !.grad = NoGrad]

\* input is None or Some(a [B,S,N] tensor); the object after the call
LV_generate(v, input, gen) ==
  IF ~IsNone(input)
  THEN [v EXCEPT !.prior =
          [mean |-> [i \in DOMAIN Get(input) |->
                       prior_mean_layer(v.theta_gen, Get(input)[i])],
           log_var |-> [i \in DOMAIN Get(input) |->
                       prior_log_var_layer(v.theta_gen, Get(input)[i])]]]
  ELSE v

\* the distribution LV_generate samples from (fresh noise, resample=True)
LV_generate_sample(v, gen) ==
  IF gen THEN [dist |-> "prior", mean |-> v.prior.mean,
               log_var |-> v.prior.log_var]
         ELSE [dist |-> "approx_post", mean |-> <<v.approx_post.mean>>,
               log_var |-> <<v.approx_post.log_var>>]

LV_re_init_approx_posterior(v) ==
  LET mean == MeanDim1(v.prior.mean)
      log_var == MeanDim1(v.prior.log_var)
  IN [v EXCEPT !.approx_post = Normal_re_init(Some(mean), Some(log_var), Rat(0, 1)),
               !.grad = NoGrad]

LV_re_init(v) ==
  LET v1 == LV_re_init_approx_posterior(v)
  IN [v1 EXCEPT !.prior = Normal_re_init(None, None, <<0>>)]

LV_step(v) == v

\* a backward pass of a loss that depends on the posterior's tensors named
\* in through deposits a gradient on each of them
Autograd_backward(v, through) ==
  [v EXCEPT !.grad = [mean |-> @.mean \/ "mean" \in through,
                      log_var |-> @.log_var \/ "log_var" \in through]]

\* the accessor with its assertion on the gradients of both mean and log_var
LV_approx_posterior_gradients_AssertBoth(v) ==
  IF ~v.grad.mean \/ ~v.grad.log_var
  THEN [exc |-> "AssertionError", ret |-> None]
  ELSE [exc |-> "none",
        ret |-> Some(<<"approx_post.mean.grad", "approx_post.log_var.grad">>)]

\* the assertion is on approx_post.mean.grad; approx_post.log_var.grad is
\* dereferenced (.detach()) unguarded
LV_approx_posterior_gradients(v) ==
  IF ~v.grad.mean
  THEN [exc |-> "AssertionError", ret |-> None]
  ELSE IF ~v.grad.log_var
  THEN [exc |-> "AttributeError", ret |-> None]
  ELSE [exc |-> "none",
        ret |-> Some(<<"approx_post.mean.grad", "approx_post.log_var.grad">>)]

LV_inference_parameters(v) ==
  LayerParameters("approx_post_mean")
  \o LayerParameters("approx_post_log_var")
  \o (IF v.inference_procedure # "direct"
      THEN LayerParameters("approx_post_mean_gate")
           \o LayerParameters("approx_post_log_var_gate")
      ELSE <<>>)

\* mutant: the posterior's log-variance layer also listed as generative
LV_generative_parameters_WithPosterior(v) ==
  LayerParameters("prior_mean") \o LayerParameters("approx_post_log_var")
  \o LayerParameters("prior_log_var")

LV_generative_parameters(v) ==
  LayerParameters("prior_mean") \o LayerParameters("prior_log_var")

-----------------------------------------------------------------------------
(***************************************************************************)
(* Collaborators of SVG: the encoder, the LSTMLatentLevel around the       *)
(* latent variable, and the networks' parameter lists.  The hidden state   *)
(* of a recurrent network is the number of steps it has taken since its    *)
(* re_init.                                                                *)
(***************************************************************************)
Encoder(theta, x) == [h |-> x + theta, skip |-> <<2 * x + theta>>]

LevelInferenceNet(theta, x) == x + 2 * theta
LevelGenerativeNet(theta, t, x) == x + t + theta

Level_infer(v, h) == LV_infer(v, LevelInferenceNet(v.theta_inf, h))

Level_step(v) == LV_step(v)

Level_re_init(v) == LV_re_init(v)

Level_generate(v, t, input, gen) ==
  IF IsNone(input)
  THEN LV_generate(v, None, gen)
  ELSE LV_generate(v, Some([i \in DOMAIN Get(input) |->
                      LevelGenerativeNet(v.theta_gen, t, Get(input)[i])]), gen)

ModuleParameters(module) == << <<module, "weight">>, <<module, "bias">> >>

Level_inference_parameters(v) ==
  ModuleParameters("latent_levels.0.inference_model")
  \o LV_inference_parameters(v)

Level_generative_parameters(v) ==
  ModuleParameters("latent_levels.0.generative_model")
  \o LV_generative_parameters(v)

\* mutant: the configured strings are compared as written
Lower_Identity(s) == s

Lower(s) == IF s = "KTH_Actions" THEN "kth_actions" ELSE s

-----------------------------------------------------------------------------
(* SVG.  Every method gives [m |-> the object after the call,              *)
(*                           exc |-> the exception raised, or "none"].     *)

\* observation - 0.5, in tenths
Half == 5

\* what the base class LatentVariableModel, which is not part of the
\* sources, gives an SVG under the name get_encoding_form: nothing, a method
\* that returns its input as given, or one that calls _get_encoding_form
Inherited == {"none", "as_given", "own"}

\* the object before _construct runs; an attribute that has not been
\* assigned yet (_h, _skip, _prev_h, _prev_skip) reads as None
SVG_new(inherited) ==
  [attrs |-> {}, model_type |-> "", inference_procedure |-> "",
   n_variables |-> 0,
   h |-> None, skip |-> None, prev_h |-> None, prev_skip |-> None,
   latent |-> LV_construct([inference_procedure |-> "direct"], 0, 0),
   level_t |-> 0, dec_t |-> 0,
   n_step |-> 0, n_level_step |-> 0, n_dec_step |-> 0,
   output_dist |-> None, mode |-> "none",
   theta_inf |-> 0, theta_gen |-> 0,
   base_get_encoding_form |-> inherited]

SVG_construct(obj, model_config) ==
  LET model_type == Lower(model_config.model_type)
      m0 == [obj EXCEPT !.model_type = model_type,
                        !.inference_procedure =
                           Lower(model_config.inference_procedure),
                        !.attrs = @ \cup {"inference_procedure"}]
      latent_config == [inference_procedure |-> "direct"]
      known == model_type \in {"sm_mnist", "kth_actions", "bair_robot_pushing"}
      n_variables == CASE model_type = "sm_mnist" -> 10
                       [] model_type = "kth_actions" -> 32
                       [] model_type = "bair_robot_pushing" -> 64
                       [] OTHER -> 0
  IN IF ~known
     THEN [m |-> m0, exc |-> "Exception"]
     ELSE [m |-> [m0 EXCEPT
                   !.attrs = @ \cup {"encoder", "decoder", "latent_levels",
                                     "decoder_lstm", "decoder_lstm_output",
                                     "output_dist"},
                   !.n_variables = n_variables,
                   !.latent = LV_construct(latent_config, 0, 0)],
           exc |-> "none"]

\* mutant: the observation is normalised under every inference procedure
SVG_get_encoding_form_Lenient(obj, observation) ==
  [form |-> observation - Half, exc |-> "none"]

SVG_get_encoding_form(obj, observation) ==
  IF obj.inference_procedure = "direct"
  THEN [form |-> observation - Half, exc |-> "none"]
  ELSE [form |-> observation, exc |-> "NotImplementedError"]

SVG_infer(obj, observation) ==
  LET f == SVG_get_encoding_form(obj, observation)
      e == Encoder(obj.theta_inf, f.form)
  IN IF f.exc # "none"
     THEN [m |-> obj, exc |-> f.exc]
     ELSE [m |-> [obj EXCEPT !.h = Some(e.h), !.skip = Some(e.skip),
                             !.latent = Level_infer(obj.latent, e.h)],
           exc |-> "none"]

\* mutant: generate passes the previous encoding to the latent level, which
\* recomputes the prior from it, and reseeds the posterior from that prior
SVG_generate_Priming(obj, gen) ==
  IF IsNone(obj.prev_h) THEN [m |-> obj, exc |-> "AttributeError"]
  ELSE IF IsNone(obj.prev_skip) THEN [m |-> obj, exc |-> "TypeError"]
  ELSE LET latent == LV_re_init_approx_posterior(
                       Level_generate(obj.latent, obj.level_t,
                                      Some(<<Get(obj.prev_h)>>), gen))
           z == LV_generate_sample(latent, gen)
       IN [m |-> [obj EXCEPT
                    !.latent = latent,
                    !.output_dist =
                       Some([z |-> z, prev_h |-> Get(obj.prev_h),
                             prev_skip |-> Get(obj.prev_skip),
                             dec_t |-> obj.dec_t,
                             theta_gen |-> obj.theta_gen])],
           exc |-> "none"]

\* line 106 reads self._prev_h.data, line 108 iterates self._prev_skip
SVG_generate(obj, gen) ==
  IF IsNone(obj.prev_h) THEN [m |-> obj, exc |-> "AttributeError"]
  ELSE IF IsNone(obj.prev_skip) THEN [m |-> obj, exc |-> "TypeError"]
  ELSE LET latent == Level_generate(obj.latent, obj.level_t, None, gen)
           z == LV_generate_sample(latent, gen)
       IN [m |-> [obj EXCEPT
                    !.latent = latent,
                    !.output_dist =
                       Some([z |-> z, prev_h |-> Get(obj.prev_h),
                             prev_skip |-> Get(obj.prev_skip),
                             dec_t |-> obj.dec_t,
                             theta_gen |-> obj.theta_gen])],
           exc |-> "none"]

\* mutant: the posterior is reseeded before the prior is re-primed
SVG_step_ReseedFirst(obj) ==
  LET m1 == [obj EXCEPT !.latent = Level_step(obj.latent),
                        !.level_t = @ + 1, !.n_level_step = @ + 1,
                        !.dec_t = @ + 1, !.n_dec_step = @ + 1,
                        !.n_step = @ + 1,
                        !.prev_h = obj.h, !.prev_skip = obj.skip,
                        !.h = None, !.skip = None]
  IN IF IsNone(m1.prev_h)
     THEN [m |-> m1, exc |-> "AttributeError"]
     ELSE LET l1 == LV_re_init_approx_posterior(m1.latent)
          IN [m |-> [m1 EXCEPT !.latent =
                        Level_generate(l1, m1.level_t,
                                       Some(<<Get(m1.prev_h)>>), TRUE)],
              exc |-> "none"]

\* mutant: the skip connections are not shifted
SVG_step_KeepSkip(obj) ==
  LET m1 == [obj EXCEPT !.latent = Level_step(obj.latent),
                        !.level_t = @ + 1, !.n_level_step = @ + 1,
                        !.dec_t = @ + 1, !.n_dec_step = @ + 1,
                        !.n_step = @ + 1,
                        !.prev_h = obj.h,
                        !.h = None, !.skip = None]
  IN IF IsNone(m1.prev_h)
     THEN [m |-> m1, exc |-> "AttributeError"]
     ELSE LET l1 == Level_generate(m1.latent, m1.level_t,
                                   Some(<<Get(m1.prev_h)>>), TRUE)
          IN [m |-> [m1 EXCEPT !.latent = LV_re_init_approx_posterior(l1)],
              exc |-> "none"]

SVG_step(obj) ==
  LET m1 == [obj EXCEPT !.latent = Level_step(obj.latent),
                        !.level_t = @ + 1, !.n_level_step = @ + 1,
                        !.dec_t = @ + 1, !.n_dec_step = @ + 1,
                        !.n_step = @ + 1,
                        !.prev_h = obj.h, !.prev_skip = obj.skip,
                        !.h = None, !.skip = None]
  IN IF IsNone(m1.prev_h)
     THEN [m |-> m1, exc |-> "AttributeError"]
     ELSE LET l1 == Level_generate(m1.latent, m1.level_t,
                                   Some(<<Get(m1.prev_h)>>), TRUE)
          IN [m |-> [m1 EXCEPT !.latent = LV_re_init_approx_posterior(l1)],
              exc |-> "none"]

\* self.get_encoding_form is not a method of SVG: it resolves only if the
\* base class LatentVariableModel provides it
Base_get_encoding_form(obj, input) ==
  CASE obj.base_get_encoding_form = "none" ->
         [form |-> input, exc |-> "AttributeError"]
    [] obj.base_get_encoding_form = "as_given" ->
         [form |-> input, exc |-> "none"]
    [] obj.base_get_encoding_form = "own" ->
         SVG_get_encoding_form(obj, input)

SVG_re_init(obj, input) ==
  LET m1 == [obj EXCEPT !.latent = Level_re_init(obj.latent),
                        !.level_t = 0, !.dec_t = 0,
                        !.h = None, !.skip = None]
      f == Base_get_encoding_form(m1, input)
      e == Encoder(m1.theta_inf, f.form)
  IN IF f.exc # "none"
     THEN [m |-> m1, exc |-> f.exc]
     ELSE LET l1 == Level_generate(m1.latent, m1.level_t, Some(<<e.h>>), TRUE)
          IN [m |-> [m1 EXCEPT !.prev_h = Some(e.h),
                               !.prev_skip = Some(e.skip),
                               !.latent = LV_re_init_approx_posterior(l1)],
              exc |-> "none"]

SVG_inference_parameters(obj) ==
  ModuleParameters("encoder") \o Level_inference_parameters(obj.latent)

SVG_generative_parameters(obj) ==
  ModuleParameters("decoder")
  \o Level_generative_parameters(obj.latent)
  \o ModuleParameters("decoder_lstm")

\* the parameters of the learned modules that infer (lines 93-94) and
\* generate (lines 110-113) run
SVG_forward_parameters(obj) ==
  ModuleParameters("encoder")
  \o Level_inference_parameters(obj.latent)
  \o Level_generative_parameters(obj.latent)
  \o ModuleParameters("decoder_lstm")
  \o ModuleParameters("decoder_lstm_output")
  \o ModuleParameters("decoder")

\* LatentVariableModel.inference_mode / generative_mode
Model_set_mode(obj, mode) == [obj EXCEPT !.mode = mode]

-----------------------------------------------------------------------------
(***************************************************************************)
(* The optimizers.  The gradient of a parameter group is the bag of the    *)
(* backward passes summed into it; a backward pass is <<step_ind, slot>>,  *)
(* slot 0 the zero-shot pass and slot k the k-th refinement iteration, or  *)
(* TotalPass for total_free_energy.backward().  current is the .grad of    *)
(* the group's parameters, stored the optimizer's accumulator, applied     *)
(* the gradient of the last parameter update.  n_collect and n_step count  *)
(* the calls made during the current batch.                                *)
(***************************************************************************)
TotalPass == <<-1, -1>>

Opt_new == [current |-> EmptyBag, stored |-> EmptyBag, applied |-> EmptyBag,
            n_collect |-> 0, n_step |-> 0]

Opt_zero_current_grad(o) == [o EXCEPT !.current = EmptyBag]

Opt_zero_stored_grad(o) == [o EXCEPT !.stored = EmptyBag]

Opt_collect(o) == [o EXCEPT !.stored = @ (+) o.current, !.n_collect = @ + 1]

Opt_step(o) == [o EXCEPT !.current = o.stored, !.applied = o.stored,
                         !.n_step = @ + 1]

\* tensor.backward(): the pass is summed into the .grad of the parameters
Backward(o, pass) == [o EXCEPT !.current = @ (+) SetToBag({pass})]

\* tensor.backward(retain_graph=...) on the computation graph of the batch:
\* the pass frees the buffers of the graph unless it is told to retain them,
\* and a pass through a graph already freed raises RuntimeError
Graph_backward(graph, retain_graph) ==
  IF graph = "freed"
  THEN [graph |-> graph, exc |-> "RuntimeError"]
  ELSE [graph |-> IF retain_graph THEN graph ELSE "freed", exc |-> "none"]

\* the underlying optimizer's update of the parameters of a group
UpdateInference(obj) ==
  [obj EXCEPT !.theta_inf = @ + 1, !.latent.theta_inf = @ + 1]

UpdateGenerative(obj) ==
  [obj EXCEPT !.theta_gen = @ + 1, !.latent.theta_gen = @ + 1]

-----------------------------------------------------------------------------
(***************************************************************************)
(* train(data, model, optimizers), one action per statement.  pc names     *)
(* the statement about to run; an exception ends the run at "raised".      *)
(***************************************************************************)
Batches(seq_len) == [1..seq_len -> FrameVals]

\* what a caller can observe of the model: its encodings and distributions
View(obj) ==
  [h |-> obj.h, skip |-> obj.skip, prev_h |-> obj.prev_h,
   prev_skip |-> obj.prev_skip, prior |-> obj.latent.prior,
   approx_post |-> obj.latent.approx_post]

\* the outcome of a call of a method of the model at one statement
ModelCall(r, name, arg, next) ==
  /\ m' = r.m
  /\ exc' = r.exc
  /\ pc' = IF r.exc = "none" THEN next ELSE "raised"
  /\ calls' = [calls EXCEPT !.last = name, !.arg = arg, !.exc = r.exc,
                            !.pre = Some(View(m))]

Log(op) == trace' = Append(trace, op)

\* a generate call, named with the mode the model is in
GenerateOp(obj) ==
  IF obj.mode = "generative" THEN "generate_generative"
  ELSE IF obj.mode = "inference" THEN "generate_inference"
  ELSE "generate"

\* mutant: zero inference iterations pass the assertion
AssertInfIter_NonNegative(n_inf_iter) == n_inf_iter >= 0

\* line 24
AssertInfIter(n_inf_iter) == n_inf_iter > 0

\* mutant: one refinement iteration too many
InRange_Inclusive(inf_it, n_inf_iter) == inf_it <= n_inf_iter

\* line 82: for inf_it in range(n_inf_iter)
InRange(inf_it, n_inf_iter) == inf_it < n_inf_iter

\* lines 17-32
Train_Enter ==
  /\ driver = "train" /\ pc = "train"
  /\ IF AssertInfIter(loop.n_inf_iter)
     THEN pc' = "for_batch" /\ exc' = "none"
     ELSE pc' = "raised" /\ exc' = "AssertionError"
  /\ UNCHANGED <<driver, m, lv, inf_opt, gen_opt, loop, trace, calls>>

\* lines 35-38: the next batch of the data loader, or the end of the loop
Train_ForBatch ==
  /\ driver = "train" /\ pc = "for_batch"
  /\ IF loop.batch_ind < loop.n_batches
     THEN /\ \E batch \in Batches(loop.seq_len) :
               loop' = [loop EXCEPT !.batch = batch]
          /\ pc' = "re_init"
     ELSE /\ pc' = "return"
          /\ UNCHANGED loop
  /\ UNCHANGED <<driver, exc, m, lv, inf_opt, gen_opt, trace, calls>>

\* line 39
Train_ReInit ==
  /\ driver = "train" /\ pc = "re_init"
  /\ ModelCall(SVG_re_init(m, loop.batch[1]), "re_init",
               Some(loop.batch[1]), "clear_grads")
  /\ loop' = [loop EXCEPT !.n_re_init = @ + 1, !.graph = "live"]
  /\ UNCHANGED <<driver, lv, inf_opt, gen_opt, trace>>

\* lines 42-55
Train_ClearGradients ==
  /\ driver = "train" /\ pc = "clear_grads"
  /\ inf_opt' = Opt_zero_current_grad(Opt_zero_stored_grad(inf_opt))
  /\ gen_opt' = Opt_zero_current_grad(Opt_zero_stored_grad(gen_opt))
  /\ loop' = [loop EXCEPT !.total_free_energy = "float", !.step_ind = 0]
  /\ pc' = "for_step"
  /\ UNCHANGED <<driver, exc, m, lv, trace, calls>>

\* line 58: for step_ind, step_batch in enumerate(batch[1:])
Train_ForStep ==
  /\ driver = "train" /\ pc = "for_step"
  /\ IF loop.step_ind < loop.seq_len - 1
     THEN pc' = "inference_mode" /\ trace' = <<>>
     ELSE pc' = "nan_check" /\ UNCHANGED trace
  /\ UNCHANGED <<driver, exc, m, lv, inf_opt, gen_opt, loop, calls>>

\* line 61
Train_InferenceMode ==
  /\ driver = "train" /\ pc = "inference_mode"
  /\ m' = Model_set_mode(m, "inference")
  /\ Log("inference_mode")
  /\ pc' = "inf_zero_current_grad"
  /\ UNCHANGED <<driver, exc, lv, inf_opt, gen_opt, loop, calls>>

\* line 64
Train_InfZeroCurrentGrad ==
  /\ driver = "train" /\ pc = "inf_zero_current_grad"
  /\ inf_opt' = Opt_zero_current_grad(inf_opt)
  /\ Log("zero_current_grad")
  /\ pc' = "generate_0"
  /\ UNCHANGED <<driver, exc, m, lv, gen_opt, loop, calls>>

\* line 67
Train_GenerateZeroShot ==
  /\ driver = "train" /\ pc = "generate_0"
  /\ ModelCall(SVG_generate(m, FALSE), "generate", None, "losses_0")
  /\ Log(GenerateOp(m))
  /\ UNCHANGED <<driver, lv, inf_opt, gen_opt, loop>>

\* line 71
Train_LossesZeroShot ==
  /\ driver = "train" /\ pc = "losses_0"
  /\ Log("evaluate")
  /\ pc' = "backward_0"
  /\ UNCHANGED <<driver, exc, m, lv, inf_opt, gen_opt, loop, calls>>

\* mutant: the zero-shot backward pass does not retain the graph
Train_BackwardZeroShot_Releasing ==
  /\ driver = "train" /\ pc = "backward_0"
  /\ LET g == Graph_backward(loop.graph, FALSE)
         pass == <<loop.step_ind, 0>>
     IN IF g.exc = "none"
        THEN /\ inf_opt' = Backward(inf_opt, pass)
             /\ gen_opt' = Backward(gen_opt, pass)
             /\ m' = [m EXCEPT !.latent =
                                Autograd_backward(@, {"mean", "log_var"})]
             /\ loop' = [loop EXCEPT !.inf_it = 0, !.graph = g.graph,
                                     !.last_backward = pass]
             /\ pc' = "diagnostics_0"
             /\ UNCHANGED exc
        ELSE /\ exc' = g.exc /\ pc' = "raised"
             /\ UNCHANGED <<inf_opt, gen_opt, m, loop>>
  /\ Log("backward")
  /\ UNCHANGED <<driver, lv, calls>>

\* line 72: free_energy.mean(dim=0).backward(retain_graph=True)
Train_BackwardZeroShot ==
  /\ driver = "train" /\ pc = "backward_0"
  /\ LET g == Graph_backward(loop.graph, TRUE)
         pass == <<loop.step_ind, 0>>
     IN IF g.exc = "none"
        THEN /\ inf_opt' = Backward(inf_opt, pass)
             /\ gen_opt' = Backward(gen_opt, pass)
             /\ m' = [m EXCEPT !.latent =
                                Autograd_backward(@, {"mean", "log_var"})]
             /\ loop' = [loop EXCEPT !.inf_it = 0, !.graph = g.graph,
                                     !.last_backward = pass]
             /\ pc' = "diagnostics_0"
             /\ UNCHANGED exc
        ELSE /\ exc' = g.exc /\ pc' = "raised"
             /\ UNCHANGED <<inf_opt, gen_opt, m, loop>>
  /\ Log("backward")
  /\ UNCHANGED <<driver, lv, calls>>

\* the diagnostics after a backward pass, which read the gradients of the
\* posterior twice (mean, then log_var)
Diagnostics(next) ==
  LET r == LV_approx_posterior_gradients(m.latent)
  IN /\ exc' = r.exc
     /\ pc' = IF r.exc = "none" THEN next ELSE "raised"
     /\ calls' = [calls EXCEPT !.last = "approx_posterior_gradients",
                               !.exc = r.exc, !.grads = r.ret]

\* lines 74-79
Train_DiagnosticsZeroShot ==
  /\ driver = "train" /\ pc = "diagnostics_0"
  /\ Diagnostics("for_inf_it")
  /\ UNCHANGED <<driver, m, lv, inf_opt, gen_opt, loop, trace>>

\* line 82
Train_ForInfIt ==
  /\ driver = "train" /\ pc = "for_inf_it"
  /\ pc' = IF InRange(loop.inf_it, loop.n_inf_iter) THEN "infer"
           ELSE "inf_collect"
  /\ UNCHANGED <<driver, exc, m, lv, inf_opt, gen_opt, loop, trace, calls>>

\* line 84
Train_Infer ==
  /\ driver = "train" /\ pc = "infer"
  /\ LET r == SVG_infer(m, loop.batch[loop.step_ind + 2])
     IN /\ m' = r.m
        /\ exc' = r.exc
        /\ pc' = IF r.exc = "none" THEN "generate" ELSE "raised"
        /\ calls' = [calls EXCEPT !.last = "infer", !.exc = r.exc,
                        !.arg = Some(loop.batch[loop.step_ind + 2]),
                        !.pre = Some(View(m)),
                        !.last_enc = IF r.exc = "none"
                                     THEN Some(<<Get(r.m.h), Get(r.m.skip)>>)
                                     ELSE @]
  /\ Log("infer")
  /\ UNCHANGED <<driver, lv, inf_opt, gen_opt, loop>>

\* line 87
Train_Generate ==
  /\ driver = "train" /\ pc = "generate"
  /\ ModelCall(SVG_generate(m, FALSE), "generate", None, "losses")
  /\ Log(GenerateOp(m))
  /\ UNCHANGED <<driver, lv, inf_opt, gen_opt, loop>>

\* line 91
Train_Losses ==
  /\ driver = "train" /\ pc = "losses"
  /\ Log("evaluate")
  /\ pc' = "backward"
  /\ UNCHANGED <<driver, exc, m, lv, inf_opt, gen_opt, loop, calls>>

\* mutant: the inference gradients are collected after every refinement pass
Train_Backward_Collecting ==
  /\ driver = "train" /\ pc = "backward"
  /\ LET g == Graph_backward(loop.graph, TRUE)
         pass == <<loop.step_ind, loop.inf_it + 1>>
     IN IF g.exc = "none"
        THEN /\ inf_opt' = Opt_collect(Backward(inf_opt, pass))
             /\ gen_opt' = Backward(gen_opt, pass)
             /\ m' = [m EXCEPT !.latent =
                                Autograd_backward(@, {"mean", "log_var"})]
             /\ loop' = [loop EXCEPT !.inf_it = @ + 1, !.graph = g.graph,
                                     !.last_backward = pass]
             /\ pc' = "diagnostics"
             /\ UNCHANGED exc
        ELSE /\ exc' = g.exc /\ pc' = "raised"
             /\ UNCHANGED <<inf_opt, gen_opt, m, loop>>
  /\ Log("backward")
  /\ UNCHANGED <<driver, lv, calls>>

\* line 92: free_energy.mean(dim=0).backward(retain_graph=True)
Train_Backward ==
  /\ driver = "train" /\ pc = "backward"
  /\ LET g == Graph_backward(loop.graph, TRUE)
         pass == <<loop.step_ind, loop.inf_it + 1>>
     IN IF g.exc = "none"
        THEN /\ inf_opt' = Backward(inf_opt, pass)
             /\ gen_opt' = Backward(gen_opt, pass)
             /\ m' = [m EXCEPT !.latent =
                                Autograd_backward(@, {"mean", "log_var"})]
             /\ loop' = [loop EXCEPT !.inf_it = @ + 1, !.graph = g.graph,
                                     !.last_backward = pass]
             /\ pc' = "diagnostics"
             /\ UNCHANGED exc
        ELSE /\ exc' = g.exc /\ pc' = "raised"
             /\ UNCHANGED <<inf_opt, gen_opt, m, loop>>
  /\ Log("backward")
  /\ UNCHANGED <<driver, lv, calls>>

\* lines 94-99
Train_Diagnostics ==
  /\ driver = "train" /\ pc = "diagnostics"
  /\ Diagnostics("for_inf_it")
  /\ UNCHANGED <<driver, m, lv, inf_opt, gen_opt, loop, trace>>

\* line 102
Train_InfCollect ==
  /\ driver = "train" /\ pc = "inf_collect"
  /\ inf_opt' = Opt_collect(inf_opt)
  /\ Log("collect")
  /\ pc' = "generative_mode"
  /\ UNCHANGED <<driver, exc, m, lv, gen_opt, loop, calls>>

\* line 105
Train_GenerativeMode ==
  /\ driver = "train" /\ pc = "generative_mode"
  /\ m' = Model_set_mode(m, "generative")
  /\ Log("generative_mode")
  /\ pc' = "generate_gen"
  /\ UNCHANGED <<driver, exc, lv, inf_opt, gen_opt, loop, calls>>

\* line 108
Train_GenerateGenerative ==
  /\ driver = "train" /\ pc = "generate_gen"
  /\ ModelCall(SVG_generate(m, FALSE), "generate", None,
               "add_free_energy")
  /\ Log(GenerateOp(m))
  /\ UNCHANGED <<driver, lv, inf_opt, gen_opt, loop>>

\* the sum of a running total and a step's free energy
AddFreeEnergy(total, free_energy) ==
  IF total = "nan" \/ free_energy = "nan" THEN "nan" ELSE "finite"

\* lines 111-119: the free energy of the step is finite or NaN
Train_AddFreeEnergy ==
  /\ driver = "train" /\ pc = "add_free_energy"
  /\ \E free_energy \in {"finite", "nan"} :
       loop' = [loop EXCEPT !.total_free_energy =
                               AddFreeEnergy(@, free_energy)]
  /\ Log("free_energy")
  /\ pc' = "step"
  /\ UNCHANGED <<driver, exc, m, lv, inf_opt, gen_opt, calls>>

\* mutant: the inference parameters are updated after every sequence step
Train_ModelStep_Updating ==
  /\ driver = "train" /\ pc = "step"
  /\ LET r == SVG_step(m)
     IN /\ m' = UpdateInference(r.m)
        /\ exc' = r.exc
        /\ pc' = IF r.exc = "none" THEN "for_step" ELSE "raised"
        /\ calls' = [calls EXCEPT !.last = "step", !.arg = None,
                                  !.exc = r.exc, !.pre = Some(View(m))]
  /\ inf_opt' = Opt_step(inf_opt)
  /\ Log("step")
  /\ loop' = [loop EXCEPT !.step_ind = @ + 1]
  /\ UNCHANGED <<driver, lv, gen_opt>>

\* line 122
Train_ModelStep ==
  /\ driver = "train" /\ pc = "step"
  /\ ModelCall(SVG_step(m), "step", None, "for_step")
  /\ Log("step")
  /\ loop' = [loop EXCEPT !.step_ind = @ + 1]
  /\ UNCHANGED <<driver, lv, inf_opt, gen_opt>>

\* lines 124-126: np.isnan(total_free_energy.data...); a float has no .data
Train_NanCheck ==
  /\ driver = "train" /\ pc = "nan_check"
  /\ IF loop.total_free_energy = "float"
     THEN pc' = "raised" /\ exc' = "AttributeError" /\ UNCHANGED loop
     ELSE IF loop.total_free_energy = "nan"
     THEN /\ pc' = "set_trace"
          /\ loop' = [loop EXCEPT !.reported = @ + 1]
          /\ UNCHANGED exc
     ELSE pc' = "gen_zero_current_grad" /\ UNCHANGED <<exc, loop>>
  /\ UNCHANGED <<driver, m, lv, inf_opt, gen_opt, trace, calls>>

\* line 127: ipdb.set_trace() returns when the session is continued and
\* raises BdbQuit when it is quit
Train_SetTrace ==
  /\ driver = "train" /\ pc = "set_trace"
  /\ \E command \in {"continue", "quit"} :
       IF command = "continue"
       THEN pc' = "gen_zero_current_grad" /\ UNCHANGED exc
       ELSE pc' = "raised" /\ exc' = "BdbQuit"
  /\ UNCHANGED <<driver, m, lv, inf_opt, gen_opt, loop, trace, calls>>

\* mutant: the generative gradients are not cleared before the backward pass
Train_GenZeroCurrentGrad_Skipped ==
  /\ driver = "train" /\ pc = "gen_zero_current_grad"
  /\ pc' = "total_backward"
  /\ UNCHANGED <<driver, exc, m, lv, inf_opt, gen_opt, loop, trace, calls>>

\* line 130
Train_GenZeroCurrentGrad ==
  /\ driver = "train" /\ pc = "gen_zero_current_grad"
  /\ gen_opt' = Opt_zero_current_grad(gen_opt)
  /\ pc' = "total_backward"
  /\ UNCHANGED <<driver, exc, m, lv, inf_opt, loop, trace, calls>>

\* line 133: total_free_energy.backward()
Train_TotalBackward ==
  /\ driver = "train" /\ pc = "total_backward"
  /\ LET g == Graph_backward(loop.graph, FALSE)
     IN IF g.exc = "none"
        THEN /\ inf_opt' = Backward(inf_opt, TotalPass)
             /\ gen_opt' = Backward(gen_opt, TotalPass)
             /\ loop' = [loop EXCEPT !.n_total_backward = @ + 1,
                                     !.graph = g.graph,
                                     !.last_backward = TotalPass]
             /\ pc' = "gen_collect"
             /\ UNCHANGED exc
        ELSE /\ exc' = g.exc /\ pc' = "raised"
             /\ UNCHANGED <<inf_opt, gen_opt, loop>>
  /\ UNCHANGED <<driver, m, lv, trace, calls>>

\* mutant: both optimizers collect after the total backward pass
Train_GenCollect_Both ==
  /\ driver = "train" /\ pc = "gen_collect"
  /\ gen_opt' = Opt_collect(gen_opt)
  /\ inf_opt' = [Opt_collect(inf_opt) EXCEPT !.n_collect = inf_opt.n_collect]
  /\ pc' = "inf_opt_step"
  /\ UNCHANGED <<driver, exc, m, lv, loop, trace, calls>>

\* lines 136-139
Train_GenCollect ==
  /\ driver = "train" /\ pc = "gen_collect"
  /\ gen_opt' = Opt_collect(gen_opt)
  /\ pc' = "inf_opt_step"
  /\ UNCHANGED <<driver, exc, m, lv, inf_opt, loop, trace, calls>>

\* line 142, inf_opt.step()
Train_InfOptStep ==
  /\ driver = "train" /\ pc = "inf_opt_step"
  /\ inf_opt' = Opt_step(inf_opt)
  /\ m' = UpdateInference(m)
  /\ pc' = "gen_opt_step"
  /\ UNCHANGED <<driver, exc, lv, gen_opt, loop, trace, calls>>

\* line 142, gen_opt.step(), and lines 144-149
Train_GenOptStep ==
  /\ driver = "train" /\ pc = "gen_opt_step"
  /\ gen_opt' = Opt_step(gen_opt)
  /\ m' = UpdateGenerative(m)
  /\ pc' = "end_batch"
  /\ UNCHANGED <<driver, exc, lv, inf_opt, loop, trace, calls>>

\* back to line 35 for the next batch
Train_EndBatch ==
  /\ driver = "train" /\ pc = "end_batch"
  /\ loop' = [loop EXCEPT !.batch_ind = @ + 1, !.n_total_backward = 0,
                          !.n_re_init = 0]
  /\ inf_opt' = [inf_opt EXCEPT !.n_collect = 0, !.n_step = 0]
  /\ gen_opt' = [gen_opt EXCEPT !.n_collect = 0, !.n_step = 0]
  /\ pc' = "for_batch"
  /\ UNCHANGED <<driver, exc, m, lv, trace, calls>>

\* lines 151-153
Train_Return ==
  /\ driver = "train" /\ pc = "return"
  /\ pc' = "returned"
  /\ UNCHANGED <<driver, exc, m, lv, inf_opt, gen_opt, loop, trace, calls>>

-----------------------------------------------------------------------------
(***************************************************************************)
(* validate(data, model), one action per statement.  Its first call of the *)
(* model is model.re_init() with no argument, while SVG.re_init(self,      *)
(* input) has a required parameter: the call raises TypeError before the   *)
(* body of re_init runs, so the frame loop of lines 169-172 is never       *)
(* entered with an SVG model.                                              *)
(***************************************************************************)

\* a call of re_init without its required argument: the body does not run
SVG_re_init_NoArgument(obj) == [m |-> obj, exc |-> "TypeError"]

\* line 165: model.eval()
Validate_Enter ==
  /\ driver = "validate" /\ pc = "validate"
  /\ m' = Model_set_mode(m, "eval")
  /\ pc' = "validate_for_batch"
  /\ UNCHANGED <<driver, exc, lv, inf_opt, gen_opt, loop, trace, calls>>

\* line 167: the next batch of the data loader, or the end of the loop
Validate_ForBatch ==
  /\ driver = "validate" /\ pc = "validate_for_batch"
  /\ IF loop.batch_ind < loop.n_batches
     THEN /\ \E batch \in Batches(loop.seq_len) :
               loop' = [loop EXCEPT !.batch = batch]
          /\ pc' = "validate_re_init"
     ELSE /\ pc' = "validate_return"
          /\ UNCHANGED loop
  /\ UNCHANGED <<driver, exc, m, lv, inf_opt, gen_opt, trace, calls>>

\* line 168: model.re_init()
Validate_ReInit ==
  /\ driver = "validate" /\ pc = "validate_re_init"
  /\ ModelCall(SVG_re_init_NoArgument(m), "re_init", None,
               "validate_for_step")
  /\ loop' = [loop EXCEPT !.n_re_init = @ + 1]
  /\ UNCHANGED <<driver, lv, inf_opt, gen_opt, trace>>

\* the end of validate(): the function returns None
Validate_Return ==
  /\ driver = "validate" /\ pc = "validate_return"
  /\ pc' = "returned"
  /\ UNCHANGED <<driver, exc, m, lv, inf_opt, gen_opt, loop, trace, calls>>

-----------------------------------------------------------------------------
(***************************************************************************)
(* A caller of the SVG object: construction, then any calls of its         *)
(* methods, at most MaxCalls of them.  An exception leaves the object as   *)
(* the method left it.                                                     *)
(***************************************************************************)
ModelConfigs == [model_type : ModelTypes, inference_procedure : Procedures]

ObjectCall(r, name, arg) ==
  /\ m' = r.m
  /\ exc' = r.exc
  /\ calls' = [calls EXCEPT !.n = @ + 1, !.last = name, !.arg = arg,
                            !.exc = r.exc, !.pre = Some(View(m))]

SVGCall_Construct ==
  /\ driver = "svg" /\ pc = "new"
  /\ \E model_config \in ModelConfigs :
       LET r == SVG_construct(m, model_config)
       IN /\ m' = r.m
          /\ exc' = r.exc
          /\ pc' = IF r.exc = "none" THEN "ready" ELSE "failed"
          /\ calls' = [calls EXCEPT !.last = "construct", !.exc = r.exc,
                                    !.config = Some(model_config)]
  /\ UNCHANGED <<driver, lv, inf_opt, gen_opt, loop, trace>>

SVGCall_Infer ==
  /\ driver = "svg" /\ pc = "ready" /\ calls.n < MaxCalls
  /\ \E observation \in FrameVals :
       LET r == SVG_infer(m, observation)
       IN /\ m' = r.m
          /\ exc' = r.exc
          /\ calls' = [calls EXCEPT !.n = @ + 1, !.last = "infer",
                          !.exc = r.exc,
                          !.arg = Some(observation),
                          !.pre = Some(View(m)),
                          !.last_enc = IF r.exc = "none"
                                       THEN Some(<<Get(r.m.h), Get(r.m.skip)>>)
                                       ELSE @]
  /\ UNCHANGED <<driver, pc, lv, inf_opt, gen_opt, loop, trace>>

SVGCall_Generate ==
  /\ driver = "svg" /\ pc = "ready" /\ calls.n < MaxCalls
  /\ \E gen \in BOOLEAN : ObjectCall(SVG_generate(m, gen), "generate", None)
  /\ UNCHANGED <<driver, pc, lv, inf_opt, gen_opt, loop, trace>>

SVGCall_Step ==
  /\ driver = "svg" /\ pc = "ready" /\ calls.n < MaxCalls
  /\ ObjectCall(SVG_step(m), "step", None)
  /\ UNCHANGED <<driver, pc, lv, inf_opt, gen_opt, loop, trace>>

SVGCall_ReInit ==
  /\ driver = "svg" /\ pc = "ready" /\ calls.n < MaxCalls
  /\ \E input \in FrameVals : ObjectCall(SVG_re_init(m, input), "re_init", Some(input))
  /\ UNCHANGED <<driver, pc, lv, inf_opt, gen_opt, loop, trace>>

SVGCall_Parameters ==
  /\ driver = "svg" /\ pc = "ready"
  /\ calls' = [calls EXCEPT !.last = "parameters", !.exc = "none",
                  !.ret = Some(<<SVG_inference_parameters(m),
                                 SVG_generative_parameters(m)>>)]
  /\ exc' = "none"
  /\ UNCHANGED <<driver, pc, m, lv, inf_opt, gen_opt, loop, trace>>

-----------------------------------------------------------------------------
(* A caller of a FullyConnectedLatentVariable on its own *)
GenerateInputs ==
  {None} \cup {Some(t) : t \in UNION {[1..s -> LatentInputs] : s \in 1..MaxSamples}}

LatentCall(v, name, arg) ==
  /\ lv' = v
  /\ exc' = "none"
  /\ calls' = [calls EXCEPT !.n = @ + 1, !.last = name, !.arg = arg,
                            !.exc = "none", !.pre = Some(lv)]
  /\ UNCHANGED <<driver, pc, m, inf_opt, gen_opt, loop, trace>>

LVCall_Infer ==
  /\ driver = "latent" /\ calls.n < MaxCalls
  /\ \E input \in InferInputs :
       LatentCall(LV_infer(lv, input), "infer", Some(input))

LVCall_Generate ==
  /\ driver = "latent" /\ calls.n < MaxCalls
  /\ \E input \in GenerateInputs, gen \in BOOLEAN :
       LatentCall(LV_generate(lv, input, gen), "generate", None)

LVCall_ReInit ==
  /\ driver = "latent" /\ calls.n < MaxCalls
  /\ LatentCall(LV_re_init(lv), "re_init", None)

LVCall_ReInitApproxPosterior ==
  /\ driver = "latent" /\ calls.n < MaxCalls
  /\ LatentCall(LV_re_init_approx_posterior(lv), "re_init_approx_posterior",
                None)

LVCall_Step ==
  /\ driver = "latent" /\ calls.n < MaxCalls
  /\ LatentCall(LV_step(lv), "step", None)

\* the caller runs the backward pass of a loss computed from the posterior
LVCall_Backward ==
  /\ driver = "latent" /\ calls.n < MaxCalls
  /\ \E through \in SUBSET {"mean", "log_var"} \ {{}} :
       LatentCall(Autograd_backward(lv, through), "backward", None)

LVCall_Gradients ==
  /\ driver = "latent" /\ calls.n < MaxCalls
  /\ LET r == LV_approx_posterior_gradients(lv)
     IN /\ exc' = r.exc
        /\ calls' = [calls EXCEPT !.n = @ + 1,
                                  !.last = "approx_posterior_gradients",
                                  !.arg = None, !.pre = Some(lv),
                                  !.exc = r.exc, !.grads = r.ret]
  /\ UNCHANGED <<driver, pc, m, lv, inf_opt, gen_opt, loop, trace>>

LVCall_Parameters ==
  /\ driver = "latent"
  /\ calls' = [calls EXCEPT !.last = "parameters", !.pre = Some(lv),
                  !.exc = "none",
                  !.ret = Some(<<LV_inference_parameters(lv),
                                 LV_generative_parameters(lv)>>)]
  /\ UNCHANGED <<driver, pc, exc, m, lv, inf_opt, gen_opt, loop, trace>>

-----------------------------------------------------------------------------
NoCalls == [n |-> 0, last |-> "none", last_enc |-> None, pre |-> None,
            ret |-> None, arg |-> None, config |-> None, grads |-> None,
            exc |-> "none"]

NoLoop == [n_batches |-> 0, seq_len |-> 1, n_inf_iter |-> 1, batch_ind |-> 0,
           batch |-> <<>>, step_ind |-> 0, inf_it |-> 0,
           total_free_energy |-> "float", reported |-> 0,
           n_total_backward |-> 0, n_re_init |-> 0, graph |-> "none",
           last_backward |-> <<-2, -2>>]

TrainModel(inference_procedure, inherited) ==
  SVG_construct(SVG_new(inherited),
                [model_type |-> "sm_mnist",
                 inference_procedure |-> inference_procedure]).m

InitTrain ==
  /\ driver = "train" /\ pc = "train"
  /\ \E p \in Procedures, inherited \in Inherited :
       m = TrainModel(p, inherited)
  /\ \E n_batches \in 0..MaxBatches, seq_len \in 1..MaxSeqLen,
        n_inf_iter \in 0..MaxInfIter :
       loop = [NoLoop EXCEPT !.n_batches = n_batches, !.seq_len = seq_len,
                             !.n_inf_iter = n_inf_iter]
  /\ lv = LV_construct([inference_procedure |-> "direct"], 0, 0)

InitValidate ==
  /\ driver = "validate" /\ pc = "validate"
  /\ \E p \in Procedures, inherited \in Inherited :
       m = TrainModel(p, inherited)
  /\ \E n_batches \in 0..MaxBatches, seq_len \in 1..MaxSeqLen :
       loop = [NoLoop EXCEPT !.n_batches = n_batches, !.seq_len = seq_len]
  /\ lv = LV_construct([inference_procedure |-> "direct"], 0, 0)

InitSVG ==
  /\ driver = "svg" /\ pc = "new"
  /\ \E inherited \in Inherited : m = SVG_new(inherited)
  /\ loop = NoLoop
  /\ lv = LV_construct([inference_procedure |-> "direct"], 0, 0)

InitLatent ==
  /\ driver = "latent" /\ pc = "ready"
  /\ m = SVG_new("none")
  /\ loop = NoLoop
  /\ \E p \in Procedures : lv = LV_construct([inference_procedure |-> p], 0, 0)

Init ==
  /\ exc = "none"
  /\ inf_opt = Opt_new /\ gen_opt = Opt_new
  /\ trace = <<>>
  /\ calls = NoCalls
  /\ (InitTrain \/ InitValidate \/ InitSVG \/ InitLatent)

Next ==
  \/ Train_Enter \/ Train_ForBatch \/ Train_ReInit \/ Train_ClearGradients
  \/ Train_ForStep \/ Train_InferenceMode \/ Train_InfZeroCurrentGrad
  \/ Train_GenerateZeroShot \/ Train_LossesZeroShot \/ Train_BackwardZeroShot
  \/ Train_DiagnosticsZeroShot \/ Train_Diagnostics
  \/ Train_ForInfIt \/ Train_Infer \/ Train_Generate \/ Train_Losses
  \/ Train_Backward \/ Train_InfCollect \/ Train_GenerativeMode
  \/ Train_GenerateGenerative \/ Train_AddFreeEnergy \/ Train_ModelStep
  \/ Train_NanCheck \/ Train_SetTrace \/ Train_GenZeroCurrentGrad
  \/ Train_TotalBackward \/ Train_GenCollect \/ Train_InfOptStep
  \/ Train_GenOptStep \/ Train_EndBatch \/ Train_Return
  \/ Validate_Enter \/ Validate_ForBatch \/ Validate_ReInit
  \/ Validate_Return
  \/ SVGCall_Construct \/ SVGCall_Infer \/ SVGCall_Generate \/ SVGCall_Step
  \/ SVGCall_ReInit \/ SVGCall_Parameters
  \/ LVCall_Infer \/ LVCall_Generate \/ LVCall_ReInit
  \/ LVCall_ReInitApproxPosterior \/ LVCall_Step \/ LVCall_Parameters
  \/ LVCall_Backward \/ LVCall_Gradients

Spec == Init /\ [][Next]_vars

-----------------------------------------------------------------------------
(***************************************************************************)
(* Properties                                                              *)
(***************************************************************************)
NSteps == loop.seq_len - 1

\* C1: in train(), in every batch inf_opt.step() and gen_opt.step() are each
\* called at most once and, when the batch ends, exactly once; a step() is
\* called only after the inf_opt.collect() of every sequence step and the
\* batch's single gen_opt.collect(); and the parameters change at no other
\* point: their value is the number of updates of the batches so far.
C1_StepOncePerBatch ==
  driver = "train" =>
    /\ inf_opt.n_step <= 1 /\ gen_opt.n_step <= 1
    /\ (inf_opt.n_step = 1 \/ gen_opt.n_step = 1) =>
         /\ inf_opt.n_collect = NSteps
         /\ gen_opt.n_collect = 1
         /\ loop.step_ind = NSteps
         /\ pc \in {"gen_opt_step", "end_batch"}
    /\ pc = "end_batch" => inf_opt.n_step = 1 /\ gen_opt.n_step = 1
    /\ m.theta_inf = loop.batch_ind + inf_opt.n_step
    /\ m.theta_gen = loop.batch_ind + gen_opt.n_step
    /\ m.latent.theta_inf = m.theta_inf
    /\ m.latent.theta_gen = m.theta_gen

\* the second batch of sequences of three frames ends, both updates applied
C1_Witness ==
  /\ driver = "train" /\ pc = "end_batch" /\ loop.batch_ind = 1
  /\ loop.seq_len = 3 /\ loop.n_inf_iter = 2
  /\ inf_opt.n_step = 1 /\ gen_opt.n_step = 1 /\ inf_opt.n_collect = 2

\* C2 (as claimed): when the total free energy of a batch is NaN, neither
\* inf_opt.step() nor gen_opt.step() is called for that batch.
C2_NoStepOnNaN ==
  (driver = "train" /\ loop.total_free_energy = "nan") =>
    (inf_opt.n_step = 0 /\ gen_opt.n_step = 0)

InferencePasses == {<<s, k>> : s \in 0..(NSteps - 1), k \in 0..loop.n_inf_iter}

\* C3: the gradient inf_opt.step() applies is the sum, over all sequence
\* steps, of the n_inf_iter+1 inference-mode backward passes of the step,
\* each counted exactly once.
C3_InferenceGradientIsSum ==
  (driver = "train" /\ inf_opt.n_step = 1) =>
    inf_opt.applied = SetToBag(InferencePasses)

C3_Witness ==
  /\ driver = "train" /\ inf_opt.n_step = 1 /\ loop.batch_ind = 1
  /\ loop.seq_len = 3 /\ loop.n_inf_iter = 2
  /\ BagCardinality(inf_opt.applied) = 6

\* C4: gen_opt's stored gradients never hold an inference-mode backward
\* pass; total_free_energy.backward() runs at most once in a batch, and once
\* before gen_opt.step(), which applies the gradient of that pass alone.
C4_GenerativeGradientIsTotal ==
  driver = "train" =>
    /\ BagToSet(gen_opt.stored) \subseteq {TotalPass}
    /\ loop.n_total_backward <= 1
    /\ gen_opt.n_step = 1 =>
         /\ gen_opt.applied = SetToBag({TotalPass})
         /\ loop.n_total_backward = 1

C4_Witness ==
  /\ driver = "train" /\ gen_opt.n_step = 1 /\ loop.seq_len = 3
  /\ loop.n_inf_iter = 2 /\ gen_opt.applied = SetToBag({TotalPass})

\* C5: in train(), _prev_h and _prev_skip are populated at every call of
\* generate(), and _h and _skip are populated at every call of step().
C5_PrevPopulatedAtGenerate ==
  driver = "train" =>
    /\ pc \in {"generate_0", "generate", "generate_gen"} =>
         ~IsNone(m.prev_h) /\ ~IsNone(m.prev_skip)
    /\ pc = "step" => ~IsNone(m.h) /\ ~IsNone(m.skip)

\* the zero-shot generate of the second sequence step, after a step()
C5_Witness ==
  /\ driver = "train" /\ pc = "generate_0" /\ loop.step_ind = 1
  /\ m.n_step >= 1 /\ ~IsNone(m.prev_h)

\* C6: the inference and generative parameter lists an object returns share
\* no parameter, for a latent variable of either inference procedure and
\* for an SVG model.
C6_ParametersDisjoint ==
  ~IsNone(calls.ret) =>
    Range(Get(calls.ret)[1]) \cap Range(Get(calls.ret)[2]) = {}

\* the lists of a latent variable with gated inference: eight inference
\* parameters (four layers), four generative ones
C6_Witness ==
  /\ driver = "latent" /\ lv.inference_procedure = "iterative"
  /\ ~IsNone(calls.ret)
  /\ Len(Get(calls.ret)[1]) = 8 /\ Len(Get(calls.ret)[2]) = 4

RECURSIVE Repeat(_, _)
Repeat(n, s) == IF n = 0 THEN <<>> ELSE s \o Repeat(n - 1, s)

IsPrefix(s, t) == Len(s) <= Len(t) /\ SubSeq(t, 1, Len(s)) = s

\* the calls of one frame, the switches of mode left out
FrameOps(n_inf_iter) ==
  <<"zero_current_grad", "generate_inference", "evaluate", "backward">>
  \o Repeat(n_inf_iter,
            <<"infer", "generate_inference", "evaluate", "backward">>)
  \o <<"collect", "generate_generative", "free_energy", "step">>

ModelOps(t) == SelectSeq(t, LAMBDA op : op \notin {"inference_mode",
                                                   "generative_mode"})

\* C7: on every frame after the first, train() makes its calls in the order
\* zero_current_grad, generate, evaluate, backward (zero-shot), then
\* n_inf_iter times infer, generate, evaluate, backward, then collect, a
\* generative-mode generate, the addition to the total, and step() last.
C7_FrameOrder ==
  driver = "train" =>
    /\ IsPrefix(ModelOps(trace), FrameOps(loop.n_inf_iter))
    /\ (pc = "for_step" /\ loop.step_ind > 0) =>
         ModelOps(trace) = FrameOps(loop.n_inf_iter)

C7_Witness ==
  /\ driver = "train" /\ pc = "for_step" /\ loop.step_ind = 2
  /\ loop.n_inf_iter = 2 /\ Len(ModelOps(trace)) = 16

\* C8 (as claimed): after re_init() of a latent variable the prior's mean
\* and log_var are zero, and so are the posterior's, seeded from that prior.
C8_ReInitSeedsFromZeroPrior ==
  (driver = "latent" /\ calls.last = "re_init") =>
    /\ lv.prior = [mean |-> <<0>>, log_var |-> <<0>>]
    /\ lv.approx_post = [mean |-> Rat(0, 1), log_var |-> Rat(0, 1)]

\* the state right after a call of a method of the model that returned
AfterCall(name) ==
  /\ calls.last = name /\ exc = "none"
  /\ \/ driver = "svg"
     \/ driver = "train" /\ pc \in {"clear_grads", "for_step"}

PrimedPrior(obj) ==
  LET x == LevelGenerativeNet(obj.latent.theta_gen, obj.level_t,
                              Get(obj.prev_h))
  IN [mean |-> <<prior_mean_layer(obj.latent.theta_gen, x)>>,
      log_var |-> <<prior_log_var_layer(obj.latent.theta_gen, x)>>]

\* C9: after every re_init(first_frame) and every step() of the model, the
\* prior is the one computed from the current _prev_h, and the posterior's
\* mean and log_var are the means over the sample dimension of that prior's.
C9_PosteriorReseededFromNewPrior ==
  (AfterCall("re_init") \/ AfterCall("step")) =>
    /\ m.latent.prior = PrimedPrior(m)
    /\ m.latent.approx_post.mean = MeanDim1(m.latent.prior.mean)
    /\ m.latent.approx_post.log_var = MeanDim1(m.latent.prior.log_var)

\* after the second step() of a batch in train()
C9_Witness ==
  /\ driver = "train" /\ AfterCall("step") /\ loop.step_ind = 2
  /\ m.latent.approx_post.mean = MeanDim1(PrimedPrior(m).mean)

\* C10: after step(), _prev_h and _prev_skip are the encoding of the most
\* recent infer() and _h and _skip are None; the latent level and the
\* decoder LSTM have stepped once for every step() called.
C10_StepShiftsEncoding ==
  /\ (driver \in {"svg", "train"} /\ calls.last = "step" /\ exc = "none") =>
       /\ ~IsNone(calls.last_enc)
       /\ m.prev_h = Some(Get(calls.last_enc)[1])
       /\ m.prev_skip = Some(Get(calls.last_enc)[2])
       /\ IsNone(m.h) /\ IsNone(m.skip)
  /\ m.n_level_step = m.n_step /\ m.n_dec_step = m.n_step

\* a second step(), of an object called directly
C10_Witness ==
  /\ driver = "svg" /\ calls.last = "step" /\ exc = "none" /\ m.n_step = 2
  /\ m.prev_h = Some(Get(calls.last_enc)[1])
\* the statements of train() between the re_init of a batch and its end
InBatch ==
  {"clear_grads", "for_step", "inference_mode", "inf_zero_current_grad",
   "generate_0", "losses_0", "backward_0", "diagnostics_0", "for_inf_it",
   "infer", "generate", "losses", "backward", "diagnostics", "inf_collect", "generative_mode", "generate_gen",
   "add_free_energy", "step", "nan_check", "set_trace",
   "gen_zero_current_grad", "total_backward", "gen_collect", "inf_opt_step",
   "gen_opt_step", "end_batch"}

\* C11 (as claimed): in train() and in validate(), every batch re-initialises
\* the model exactly once, with the first frame of the batch and before any
\* infer, generate or step; the frames after the first are each one step,
\* seq_len - 1 steps in all, and the first frame is never a step.
C11_ReInitWithFirstFrame ==
  driver \in {"train", "validate"} =>
    /\ calls.last = "re_init" => calls.arg = Some(loop.batch[1])
    /\ calls.last = "infer" => calls.arg = Some(loop.batch[loop.step_ind + 2])
    /\ pc \in {"for_batch", "re_init", "validate_for_batch",
               "validate_re_init"} => loop.n_re_init = 0
    /\ pc \in InBatch => loop.n_re_init = 1 /\ loop.step_ind <= NSteps
    /\ pc \in {"nan_check", "end_batch"} => loop.step_ind = NSteps

\* the part of C11 that is about train() alone
C11_TrainOnly == driver = "train" => C11_ReInitWithFirstFrame
\* the statements of train() after total_free_energy.backward() in a batch
AfterTotalBackward == {"gen_collect", "inf_opt_step", "gen_opt_step",
                       "end_batch"}

\* C12: in train(), the backward passes of a sequence step run on a live
\* graph and leave it live; the graph of a batch is freed only by
\* total_free_energy.backward(), after all seq_len - 1 inf_opt.collect()
\* calls of the batch and before gen_opt.collect(); and no backward pass
\* runs on a freed graph (no RuntimeError).
C12_GraphRetainedUntilTotal ==
  driver = "train" =>
    /\ exc # "RuntimeError"
    /\ pc \in {"backward_0", "backward", "total_backward"} =>
         loop.graph = "live"
    /\ pc \in InBatch \ AfterTotalBackward =>
         loop.graph = "live" /\ loop.n_total_backward = 0
    /\ pc \in AfterTotalBackward =>
         /\ loop.graph = "freed"
         /\ loop.n_total_backward = 1
         /\ inf_opt.n_collect = NSteps
         /\ (pc = "gen_collect" => gen_opt.n_collect = 0)

\* a batch whose frames made three retaining backward passes each has had
\* its graph freed by the total backward, gen_opt.collect() not yet called
C12_Witness ==
  /\ driver = "train" /\ pc = "gen_collect"
  /\ loop.graph = "freed"
  /\ loop.seq_len = 3 /\ loop.n_inf_iter = 2
  /\ inf_opt.n_collect = 2 /\ gen_opt.n_collect = 0
\* posterior parameters a latent variable may hold before a call
PosteriorValues == {Rat(n, d) : n \in -4 .. 8, d \in {1, 2, 4}}

\* C13: under inference_procedure 'direct', infer(input) of the latent
\* variable overwrites the posterior: whatever mean and log_var were held
\* before, the posterior after the call is the same function of the input,
\* and a second infer with the same input leaves it as the first did.
C13_DirectInferOverwrites ==
  (/\ driver = "latent" /\ calls.last = "infer"
   /\ lv.inference_procedure = "direct") =>
    LET input == Get(calls.arg)
    IN /\ \A mean \in PosteriorValues, log_var \in PosteriorValues :
            LV_infer([Get(calls.pre) EXCEPT
                        !.approx_post = [mean |-> mean, log_var |-> log_var]],
                     input).approx_post = lv.approx_post
       /\ LV_infer(lv, input) = lv

\* a direct infer replaced the posterior an earlier infer, of another
\* input, had set
C13_Witness ==
  /\ driver = "latent" /\ calls.last = "infer"
  /\ lv.inference_procedure = "direct"
  /\ Get(calls.arg) = -1
  /\ Get(calls.pre).approx_post = LV_infer(lv, 2).approx_post
  /\ lv.approx_post # Get(calls.pre).approx_post
\* order and arithmetic of fractions
RatLeq(a, b) == a[1] * b[2] <= b[1] * a[2]
RatLess(a, b) == a[1] * b[2] < b[1] * a[2]
RatAdd(a, b) == Rat(a[1] * b[2] + b[1] * a[2], a[2] * b[2])
RatScale(k, a) == Rat(k * a[1], a[2])
Between(new, a, b) ==
  \/ RatLeq(a, new) /\ RatLeq(new, b)
  \/ RatLeq(b, new) /\ RatLeq(new, a)
StrictlyBetween(new, a, b) ==
  \/ RatLess(a, new) /\ RatLess(new, b)
  \/ RatLess(b, new) /\ RatLess(new, a)

\* new is exactly gate * old + (1 - gate) * candidate (the gate in halves:
\* 2 * new = gate * old + (2 - gate) * candidate), between old and
\* candidate, old at gate 1 and candidate at gate 0
IsGatedUpdate(new, gate, old, candidate) ==
  /\ RatScale(2, new) = RatAdd(RatScale(gate, old),
                               RatScale(2 - gate, candidate))
  /\ Between(new, old, candidate)
  /\ gate = 2 => new = old
  /\ gate = 0 => new = candidate

\* C14: under an inference procedure other than 'direct', infer(input) of
\* the latent variable sets the mean to gate * old + (1 - gate) * candidate
\* and the log_var likewise with its own gate, old being the value held
\* just before the call and gate in [0, 1]: each lies between its old value
\* and its candidate, is the old value at gate 1, the candidate at gate 0.
C14_GatedInferBlends ==
  (/\ driver = "latent" /\ calls.last = "infer"
   /\ lv.inference_procedure # "direct") =>
    LET input == Get(calls.arg)
        old == Get(calls.pre).approx_post
        theta == Get(calls.pre).theta_inf
        mean_gate == approx_post_mean_gate_layer(theta, input)
        log_var_gate == approx_post_log_var_gate_layer(theta, input)
    IN /\ mean_gate \in 0..2 /\ log_var_gate \in 0..2
       /\ IsGatedUpdate(lv.approx_post.mean, mean_gate, old.mean,
                        Rat(approx_post_mean_layer(theta, input), 1))
       /\ IsGatedUpdate(lv.approx_post.log_var, log_var_gate, old.log_var,
                        Rat(approx_post_log_var_layer(theta, input), 1))

\* a gated infer with the mean's gate at 1/2 and the log_var's gate at 1:
\* the mean moved strictly between its old value and its candidate, and the
\* log_var kept its old value although its candidate differs
C14_Witness ==
  /\ driver = "latent" /\ calls.last = "infer"
  /\ lv.inference_procedure # "direct"
  /\ Get(calls.arg) = 1
  /\ approx_post_mean_gate_layer(lv.theta_inf, 1) = 1
  /\ approx_post_log_var_gate_layer(lv.theta_inf, 1) = 2
  /\ StrictlyBetween(lv.approx_post.mean, Get(calls.pre).approx_post.mean,
                     Rat(approx_post_mean_layer(lv.theta_inf, 1), 1))
  /\ lv.approx_post.mean[2] > 1
  /\ lv.approx_post.log_var = Get(calls.pre).approx_post.log_var
  /\ lv.approx_post.log_var # Rat(approx_post_log_var_layer(lv.theta_inf, 1), 1)
\* the attributes _construct assigns after the choice of the model type
AfterModelType == {"latent_levels", "decoder_lstm", "decoder_lstm_output",
                   "output_dist"}

\* C15: constructing an SVG whose model_type is not, lower-cased, one of
\* sm_mnist, kth_actions, bair_robot_pushing raises at once, none of
\* latent_levels, decoder_lstm, decoder_lstm_output, output_dist created;
\* with one of the three, in any case of letters, construction completes
\* and all four exist.
C15_UnknownModelTypeRaises ==
  (driver = "svg" /\ calls.last = "construct") =>
    IF Get(calls.config).model_type
         \in {"sm_mnist", "KTH_Actions", "bair_robot_pushing"}
    THEN /\ exc = "none" /\ pc = "ready"
         /\ AfterModelType \subseteq m.attrs
    ELSE /\ exc = "Exception" /\ pc = "failed"
         /\ AfterModelType \cap m.attrs = {}

\* construction with model_type 'mnist' has raised
C15_Witness ==
  /\ driver = "svg" /\ calls.last = "construct"
  /\ Get(calls.config).model_type = "mnist"
  /\ exc = "Exception"
  /\ m.attrs = {"inference_procedure"}
\* C16 (as claimed): approx_posterior_gradients() fails with an assertion
\* whenever the gradient of the posterior's mean or of its log_var is
\* absent, and returns the two gradients otherwise; and in train() each
\* call of it follows a backward pass of the same frame and iteration slot
\* through the posterior held at the call.
C16_GradientsAssertedPresent ==
  /\ (driver = "latent" /\ calls.last = "approx_posterior_gradients") =>
       IF Get(calls.pre).grad.mean /\ Get(calls.pre).grad.log_var
       THEN /\ exc = "none"
            /\ calls.grads = Some(<<"approx_post.mean.grad",
                                  "approx_post.log_var.grad">>)
       ELSE exc = "AssertionError"
  /\ driver = "train" =>
       /\ exc # "AssertionError" \/ loop.n_inf_iter = 0
       /\ pc \in {"diagnostics_0", "diagnostics"} =>
            /\ loop.last_backward = <<loop.step_ind, loop.inf_it>>
            /\ m.latent.grad = [mean |-> TRUE, log_var |-> TRUE]
            /\ trace[Len(trace)] = "backward"

\* the part of C16 that is about train() alone
C16_TrainOnly == driver = "train" => C16_GradientsAssertedPresent
\* C17: SVG.generate(), with gen True or False, leaves the prior's and the
\* posterior's mean and log_var and _h, _skip, _prev_h, _prev_skip as they
\* were before the call, however many times it is called; infer() leaves
\* the prior as it was too, so the prior changes only in re_init() and
\* step().
C17_GenerateLeavesStateUnchanged ==
  driver \in {"svg", "train"} =>
    /\ calls.last = "generate" => View(m) = Get(calls.pre)
    /\ calls.last = "infer" => m.latent.prior = Get(calls.pre).prior

\* a generate() that returned, called after an infer that moved the
\* posterior away from the prior's mean and after at least two other calls
C17_Witness ==
  /\ driver = "svg" /\ calls.last = "generate" /\ exc = "none"
  /\ calls.n = MaxCalls
  /\ ~IsNone(m.h) /\ ~IsNone(m.output_dist)
  /\ m.latent.approx_post # LV_re_init_approx_posterior(m.latent).approx_post
\* p is in exactly one of the two parameter lists last returned
InExactlyOneList(p) ==
  (p \in Range(Get(calls.ret)[1])) # (p \in Range(Get(calls.ret)[2]))

\* C18 (as claimed): every parameter of a learned module that SVG runs in
\* infer or generate (encoder, decoder, the latent level's inference and
\* generative layers, decoder_lstm, decoder_lstm_output) is in exactly one
\* of SVG.inference_parameters() and SVG.generative_parameters().
C18_ForwardParametersListed ==
  (driver = "svg" /\ calls.last = "parameters") =>
    \A p \in Range(SVG_forward_parameters(m)) : InExactlyOneList(p)

\* the part of C18 that leaves decoder_lstm_output out
C18_ExceptOutputLayer ==
  (driver = "svg" /\ calls.last = "parameters") =>
    \A p \in Range(SVG_forward_parameters(m))
             \ Range(ModuleParameters("decoder_lstm_output")) :
       InExactlyOneList(p)
\* C19: the gradient total_free_energy.backward() deposits on the inference
\* parameters never enters inf_opt's stored gradients nor the update
\* inf_opt.step() applies: the pass runs after the seq_len - 1
\* inf_opt.collect() calls of the batch, and from it to inf_opt.step() the
\* stored gradients of inf_opt stay as the last collect left them.
C19_InferenceUpdateExcludesTotal ==
  driver = "train" =>
    /\ CopiesIn(TotalPass, inf_opt.stored) = 0
    /\ inf_opt.n_step = 1 => CopiesIn(TotalPass, inf_opt.applied) = 0
    /\ pc \in {"gen_collect", "inf_opt_step"} =>
         /\ loop.last_backward = TotalPass
         /\ CopiesIn(TotalPass, inf_opt.current) = 1
         /\ inf_opt.n_collect = NSteps
         /\ inf_opt.stored = SetToBag(InferencePasses)

\* inf_opt.step() has applied the six inference passes of a batch of three
\* frames while the total pass sat in the .grad of the inference parameters
C19_Witness ==
  /\ driver = "train" /\ pc = "gen_opt_step"
  /\ loop.seq_len = 3 /\ loop.n_inf_iter = 2
  /\ loop.last_backward = TotalPass
  /\ inf_opt.n_step = 1
  /\ BagCardinality(inf_opt.applied) = 6
  /\ CopiesIn(TotalPass, gen_opt.stored) = 1
\* C20: an SVG whose configured inference_procedure is not 'direct' is
\* constructed without error (its latent variable still 'direct'), and
\* every infer() on it raises NotImplementedError before the encoder runs:
\* _h, _skip, _prev_h, _prev_skip, the prior and the posterior are as they
\* were before the call, and no encoding was ever computed by infer.
C20_NonDirectInferNotImplemented ==
  (driver \in {"svg", "train"} /\ m.inference_procedure # "direct") =>
    /\ (calls.last = "construct" /\ m.model_type # "mnist") =>
         /\ exc = "none" /\ pc = "ready"
         /\ m.latent.inference_procedure = "direct"
    /\ calls.last = "infer" =>
         /\ exc = "NotImplementedError"
         /\ View(m) = Get(calls.pre)
    /\ IsNone(calls.last_enc) /\ IsNone(m.h) /\ IsNone(m.skip)

\* infer() raised on a model configured 'iterative' that re_init had
\* given a previous encoding
C20_Witness ==
  /\ driver = "svg" /\ m.inference_procedure = "iterative"
  /\ calls.last = "infer" /\ exc = "NotImplementedError"
  /\ ~IsNone(m.prev_h) /\ ~IsNone(m.prev_skip)
\* C21 (as claimed): re_init(x) encodes the frame as infer(x) does: whenever
\* infer(x) would return, re_init(x) returns too, and _prev_h and _prev_skip
\* after it are the _h and _skip that infer(x) produces.
C21_ReInitEncodesAsInfer ==
  (driver \in {"svg", "train"} /\ calls.last = "re_init") =>
    LET i == SVG_infer(m, Get(calls.arg))
    IN i.exc = "none" =>
         /\ calls.exc = "none"
         /\ m.prev_h = i.m.h
         /\ m.prev_skip = i.m.skip

\* the part of C21 that holds: with a base class whose get_encoding_form
\* calls the model's own _get_encoding_form
C21_WhenDelegating ==
  m.base_get_encoding_form = "own" => C21_ReInitEncodesAsInfer

====
